---- MODULE Spec2Model ----
(***************************************************************************)
(* ZenobiaClient: the WebSocket connection controller of the client        *)
(* (src/unnamed/part_000).  Two variants of the class exist in the source: *)
(* variant 1 (lines 17-283, maxReconnectAttempts = 6, delay cap 30000) and *)
(* variant 2 (lines 355-604, maxReconnectAttempts = 5, delay cap 5000).    *)
(*                                                                         *)
(* The program runs on a single-threaded event loop: every public call and *)
(* every event handler (socket.onopen, onclose, onerror, onmessage, the    *)
(* setTimeout callback) runs to completion, so each is one action.         *)
(* The environment (the browser's WebSocket and timer implementation and   *)
(* the network) decides which event comes next.                            *)
(***************************************************************************)
EXTENDS Integers, Sequences, FiniteSets, TLC

VARIABLES
  variant,               \* which of the two classes is instantiated
  socket,                \* this.socket: a socket id, or NoSocket (null)
  sockets,               \* the WebSocket objects that have not yet fired close,
                         \* oldest first; told: the controller itself
                         \* (connectWebSocket, disconnect) closed the socket and
                         \* called the connection observer with false for it
  reconnectTimeout,      \* this.reconnectTimeout: a timer id, or NoTimer (null)
  timers,                \* the browser's pending setTimeout timers
  reconnectAttempts,     \* this.reconnectAttempts
  transferId,            \* this.transferId
  signature,             \* this.signature
  onStatusCallback,      \* this.onStatusCallback
  onErrorCallback,       \* this.onErrorCallback
  onConnectionCallback,  \* this.onConnectionCallback
  pendingCreate,         \* fetch requests of createTransfer(AndListen) in flight
  last,                  \* the call or event the last step ran
  effects,               \* what the last step did, in order (observer calls,
                         \* sockets constructed/closed, frames sent, timers)
  disconnected,          \* disconnect() returned and no credentials were supplied since
  retriesSinceOpen,      \* retries scheduled since the last onopen
  abnormalCloses,        \* close events with a code other than 1000 since the
                         \* last onopen (counted up to the attempt cap plus one)
  lastConnected          \* the last argument given to the connection observer

vars == <<variant, socket, sockets, reconnectTimeout, timers, reconnectAttempts,
          transferId, signature, onStatusCallback, onErrorCallback,
          onConnectionCallback, pendingCreate, last, effects, disconnected,
          retriesSinceOpen, abnormalCloses, lastConnected>>

----------------------------------------------------------------------------
(* Bounds of the model *)

\* WebSocket objects that exist at once without having fired their close event
MaxSockets == 2
\* fetch requests in flight at once
MaxPending == 1
\* consecutive retries that the runs of SpecMessages go through
MaxRetriesMessages == 1

----------------------------------------------------------------------------
(* Program constants *)

Variants == {1, 2}

maxReconnectAttempts1 == 6
maxReconnectAttempts2 == 5
maxReconnectAttempts(v) == IF v = 1 THEN maxReconnectAttempts1 ELSE maxReconnectAttempts2

baseDelay == 1000
capDelay1 == 30000
capDelay2 == 5000
capDelay(v) == IF v = 1 THEN capDelay1 ELSE capDelay2

\* event.code !== 1000
NormalClosure == 1000
\* the codes a CloseEvent carries in the model: normal closure, no status
\* received (close() called without a code), abnormal closure
CloseCodes == {1000, 1005, 1006}

\* WebSocket.readyState
CONNECTING == 0
OPEN == 1
CLOSING == 2
CLOSED == 3

Null == "null"
NoSocket == 0
NoTimer == 0
NoCallback == 0
Callback == 1
\* the (onStatus, onError, onConnection) arguments a caller passes: none or all
CallbackArgs == {<<NoCallback, NoCallback, NoCallback>>, <<Callback, Callback, Callback>>}
SocketIds == 1..MaxSockets

\* JavaScript truthiness of a string | null
Truthy(s) == s # Null /\ s # ""

\* the (transferId, signature) pairs a caller or a create-transfer response
\* supplies: both present, transferId empty, signature empty
Credentials == {<<"t1", "s1">>, <<"", "s1">>, <<"t1", "">>}

----------------------------------------------------------------------------
(* The object's fields as one record, so that a method is an operator from  *)
(* the object before the call to the object after it.                       *)

This ==
  [socket |-> socket, sockets |-> sockets, reconnectTimeout |-> reconnectTimeout,
   timers |-> timers, reconnectAttempts |-> reconnectAttempts,
   transferId |-> transferId, signature |-> signature,
   onStatusCallback |-> onStatusCallback, onErrorCallback |-> onErrorCallback,
   onConnectionCallback |-> onConnectionCallback,
   effects |-> <<>>, retriesSinceOpen |-> retriesSinceOpen,
   abnormalCloses |-> abnormalCloses,
   lastConnected |-> lastConnected]

Effect(e, n, s) == [e |-> e, n |-> n, s |-> s]
Do(t, e) == [t EXCEPT !.effects = Append(@, e)]

Min(a, b) == IF a <= b THEN a ELSE b

RECURSIVE Pow2(_)
Pow2(n) == IF n <= 0 THEN 1 ELSE 2 * Pow2(n - 1)

\* the smallest id of `ids` that is not in `used`
Fresh(ids, used) == CHOOSE i \in ids \ used : \A j \in ids \ used : i <= j

----------------------------------------------------------------------------
(* The browser's WebSocket and timer objects *)

\* mutant: the url is built from fixed credentials, not from the stored ones
NewSocketFixedUrl(t, id) ==
  [t EXCEPT !.sockets = [i \in DOMAIN t.sockets \cup {id} |->
                           IF i = id
                             THEN [readyState |-> CONNECTING,
                                   url |-> <<"t1", "s1">>,
                                   told |-> FALSE]
                             ELSE t.sockets[i]]]

\* new WebSocket(url): a socket in state CONNECTING, remembering its url
NewSocket(t, id) ==
  [t EXCEPT !.sockets = [i \in DOMAIN t.sockets \cup {id} |->
                           IF i = id
                             THEN [readyState |-> CONNECTING,
                                   url |-> <<t.transferId, t.signature>>,
                                   told |-> FALSE]
                             ELSE t.sockets[i]]]

\* socket.readyState; a socket that has fired its close event is CLOSED
ReadyState(t, id) ==
  IF id \in DOMAIN t.sockets THEN t.sockets[id].readyState ELSE CLOSED

\* socket.close(): starts the closing handshake unless already CLOSING/CLOSED;
\* the close event comes later, as an event of its own
SocketClose(t, id) ==
  IF ReadyState(t, id) < CLOSING
    THEN [t EXCEPT !.sockets[id].readyState = CLOSING]
    ELSE t

\* whether timer id has been set and has neither fired nor been cleared
Pending(t, id) == \E tm \in t.timers : tm.id = id
PendingOrSpent(t, id) == IF Pending(t, id) THEN "pending" ELSE "spent"

\* window.clearTimeout(id)
ClearTimeout(t, id) ==
  [t EXCEPT !.timers = {tm \in @ : tm.id # id}]

\* window.setTimeout(callback, delay): a new id, never one still in use
SetTimeout(t, id, delay) ==
  [t EXCEPT !.timers = @ \cup {[id |-> id, delay |-> delay]}]

----------------------------------------------------------------------------
(* notifyConnectionStatus, notifyStatus, notifyError *)

notifyConnectionStatus(t, connected) ==
  IF t.onConnectionCallback # NoCallback
    THEN [Do(t, Effect("onConnection", IF connected THEN 1 ELSE 0, ""))
            EXCEPT !.lastConnected = IF connected THEN "true" ELSE "false"]
    ELSE t

notifyStatus(t, status) ==
  IF t.onStatusCallback # NoCallback
    THEN Do(t, Effect("onStatus", 0, status))
    ELSE t

notifyError(t, error) ==
  IF t.onErrorCallback # NoCallback
    THEN Do(t, Effect("onError", 0, error))
    ELSE t

----------------------------------------------------------------------------
(* connectWebSocket *)

\* mutant: the closure is reported before the socket is closed
closeExistingNotifyFirst(t) ==
  IF t.socket # NoSocket
    THEN [Do(SocketClose(notifyConnectionStatus(t, FALSE), t.socket),
             Effect("close", t.socket, ""))
            EXCEPT !.socket = NoSocket]
    ELSE t

\* lines 137-141: close any existing socket connection
closeExisting(t) ==
  IF t.socket # NoSocket
    THEN notifyConnectionStatus(
           [Do(SocketClose(t, t.socket), Effect("close", t.socket, ""))
              EXCEPT !.socket = NoSocket],
           FALSE)
    ELSE t

\* lines 144-149: only create a new WebSocket with a transferId and a signature
hasCredentials(t) == Truthy(t.transferId) /\ Truthy(t.signature)

\* mutant: a constructor that throws is answered by scheduling a retry
openSocketRetriesOnThrow(t, throws) ==
  IF throws
    THEN LET t1 == notifyError(Do(t, Effect("throws", 0, "new WebSocket")),
                               "Failed to establish WebSocket connection")
             id == t1.reconnectTimeout + 1
         IN  [Do(SetTimeout(ClearTimeout(t1, t1.reconnectTimeout), id, baseDelay),
                 Effect("setTimeout", baseDelay, ""))
                EXCEPT !.reconnectTimeout = id]
    ELSE LET id == Fresh(SocketIds, DOMAIN t.sockets)
         IN  [Do(NewSocket(t, id), Effect("new", id, "")) EXCEPT !.socket = id]

\* lines 151-207: `throws` is whether the WebSocket constructor throws
openSocket(t, throws) ==
  IF throws
    THEN notifyError(Do(t, Effect("throws", 0, "new WebSocket")),
                     "Failed to establish WebSocket connection")
    ELSE LET id == Fresh(SocketIds, DOMAIN t.sockets)
         IN  [Do(NewSocket(t, id), Effect("new", id, "")) EXCEPT !.socket = id]

connectWebSocket(t, throws) ==
  LET t1 == closeExisting(t)
  IN  IF ~hasCredentials(t1) THEN t1 ELSE openSocket(t1, throws)

----------------------------------------------------------------------------
(* attemptReconnect *)

\* mutant: the exponent is attempts instead of attempts - 1
reconnectDelayNoShift(v, attempts) == Min(baseDelay * Pow2(attempts), capDelay(v))

reconnectDelay(v, attempts) == Min(baseDelay * Pow2(attempts - 1), capDelay(v))

\* mutant: the previously scheduled timer is not cancelled
attemptReconnectNoClear(t, v) ==
  LET t1 == [t EXCEPT !.reconnectAttempts = @ + 1,
                      !.retriesSinceOpen = @ + 1]
      delay == reconnectDelay(v, t1.reconnectAttempts)
      id == Fresh(1..(Cardinality(t1.timers) + 2),
                  {tm.id : tm \in t1.timers} \cup {t1.reconnectTimeout})
  IN  [Do(SetTimeout(t1, id, delay), Effect("setTimeout", delay, ""))
         EXCEPT !.reconnectTimeout = id]

\* mutant: the attempt is not counted
attemptReconnectNoCount(t, v) ==
  LET delay == reconnectDelay(v, t.reconnectAttempts + 1)
      t2 == IF t.reconnectTimeout # NoTimer
              THEN Do(ClearTimeout(t, t.reconnectTimeout),
                      Effect("clearTimeout", t.reconnectTimeout,
                             PendingOrSpent(t, t.reconnectTimeout)))
              ELSE t
      id == Fresh(1..(Cardinality(t2.timers) + 2),
                  {tm.id : tm \in t2.timers} \cup {t2.reconnectTimeout})
  IN  [Do(SetTimeout(t2, id, delay), Effect("setTimeout", delay, ""))
         EXCEPT !.reconnectTimeout = id]

attemptReconnect(t, v) ==
  LET t1 == [t EXCEPT !.reconnectAttempts = @ + 1,
                      !.retriesSinceOpen = @ + 1]
      delay == reconnectDelay(v, t1.reconnectAttempts)
      t2 == IF t1.reconnectTimeout # NoTimer
              THEN Do(ClearTimeout(t1, t1.reconnectTimeout),
                      Effect("clearTimeout", t1.reconnectTimeout,
                             PendingOrSpent(t1, t1.reconnectTimeout)))
              ELSE t1
      id == Fresh(1..(Cardinality(t2.timers) + 2),
                  {tm.id : tm \in t2.timers} \cup {t2.reconnectTimeout})
  IN  [Do(SetTimeout(t2, id, delay), Effect("setTimeout", delay, ""))
         EXCEPT !.reconnectTimeout = id]

----------------------------------------------------------------------------
(* The handlers connectWebSocket installs on the socket it constructs *)

\* mutant: onopen forgets to reset the attempt counter
onopenNoReset(t) == notifyConnectionStatus(t, TRUE)

onopen(t) ==
  [notifyConnectionStatus(t, TRUE) EXCEPT !.reconnectAttempts = 0,
                                          !.retriesSinceOpen = 0,
                                          !.abnormalCloses = 0]

\* mutant: <= instead of < in the comparison with maxReconnectAttempts
shouldReconnectInclusive(t, v, code) ==
  code # NormalClosure /\ t.reconnectAttempts <= maxReconnectAttempts(v)

\* mutant: the close code is not looked at
shouldReconnectAnyCode(t, v, code) ==
  t.reconnectAttempts < maxReconnectAttempts(v)

shouldReconnect(t, v, code) ==
  code # NormalClosure /\ t.reconnectAttempts < maxReconnectAttempts(v)

onclose(t, v, code) ==
  LET t1 == [notifyConnectionStatus(t, FALSE) EXCEPT
               !.socket = NoSocket,
               !.abnormalCloses =
                  IF code # NormalClosure
                    THEN Min(@ + 1, maxReconnectAttempts(v) + 1) ELSE @]
  IN  IF shouldReconnect(t1, v, code) THEN attemptReconnect(t1, v) ELSE t1

\* mutant: a transport error starts a retry by itself
onerrorRetries(t) ==
  attemptReconnect(notifyError(t, "WebSocket error occurred"), 1)

onerror(t) == notifyError(t, "WebSocket error occurred")

\* Inbound text frames.  parses: JSON.parse succeeds; object: the parsed value
\* is not null (reading data.type of null throws a TypeError inside the try);
\* type, transfer, message: the fields of the parsed value, "" when absent
\* (undefined and "" are both falsy).
Frame(parses, object, type, transfer, message) ==
  [parses |-> parses, object |-> object, type |-> type,
   transfer |-> transfer, message |-> message]

Frames ==
  { Frame(TRUE, TRUE, "status", "transferA", ""),
    Frame(TRUE, TRUE, "status", "transferB", ""),
    Frame(TRUE, TRUE, "status", "", ""),
    Frame(TRUE, TRUE, "error", "", "declined"),
    Frame(TRUE, TRUE, "error", "", ""),
    Frame(TRUE, TRUE, "ping", "", ""),
    Frame(TRUE, TRUE, "other", "", ""),
    Frame(TRUE, TRUE, "", "", ""),
    Frame(TRUE, FALSE, "", "", ""),
    Frame(FALSE, FALSE, "", "", "") }

\* mutant: the pong is sent without looking at socket.readyState
dispatchNoGuard(t, id, data) ==
  IF data.type = "status" /\ data.transfer # ""
    THEN notifyStatus(t, data.transfer)
  ELSE IF data.type = "error" /\ data.message # ""
    THEN notifyError(t, data.message)
  ELSE IF data.type = "ping"
    THEN Do(t, Effect("send", id, "pong"))
  ELSE t

\* mutant: the status observer receives the type of the frame, not its transfer
dispatchForwardsType(t, id, data) ==
  IF data.type = "status" /\ data.transfer # ""
    THEN notifyStatus(t, data.type)
  ELSE IF data.type = "error" /\ data.message # ""
    THEN notifyError(t, data.message)
  ELSE IF data.type = "ping"
    THEN IF ReadyState(t, id) = OPEN
           THEN Do(t, Effect("send", id, "pong"))
           ELSE t
  ELSE t

\* the body of the try block, lines 190-200, for a frame that does not throw
dispatch(t, id, data) ==
  IF data.type = "status" /\ data.transfer # ""
    THEN notifyStatus(t, data.transfer)
  ELSE IF data.type = "error" /\ data.message # ""
    THEN notifyError(t, data.message)
  ELSE IF data.type = "ping"
    THEN IF ReadyState(t, id) = OPEN
           THEN Do(t, Effect("send", id, "pong"))
           ELSE t
  ELSE t

\* mutant: the catch block reports nothing
onmessageSilentCatch(t, id, data) ==
  IF data.parses /\ data.object
    THEN dispatch(t, id, data)
    ELSE t

onmessage(t, id, data) ==
  IF data.parses /\ data.object
    THEN dispatch(t, id, data)
    ELSE notifyError(t, "Failed to parse message")

----------------------------------------------------------------------------
(* Public methods *)

setCallbacks(t, onStatus, onError, onConnection) ==
  [t EXCEPT
     !.onStatusCallback = IF onStatus # NoCallback THEN onStatus ELSE @,
     !.onErrorCallback = IF onError # NoCallback THEN onError ELSE @,
     !.onConnectionCallback = IF onConnection # NoCallback THEN onConnection ELSE @]

setCredentials(t, tid, sig) ==
  [t EXCEPT !.transferId = tid, !.signature = sig]

listenToTransfer(t, tid, sig, onStatus, onError, onConnection, throws) ==
  connectWebSocket(
    setCallbacks(setCredentials(t, tid, sig), onStatus, onError, onConnection),
    throws)

\* mutant: disconnect leaves the stored transferId and signature in place
disconnectKeepsCredentials(t) ==
  LET t1 == IF t.reconnectTimeout # NoTimer
              THEN [ClearTimeout(t, t.reconnectTimeout)
                      EXCEPT !.reconnectTimeout = NoTimer]
              ELSE t
  IN  IF t1.socket # NoSocket /\ ReadyState(t1, t1.socket) < CLOSING
        THEN notifyConnectionStatus(
               [SocketClose(t1, t1.socket) EXCEPT !.socket = NoSocket], FALSE)
        ELSE t1

disconnect(t) ==
  LET t1 == IF t.reconnectTimeout # NoTimer
              THEN [Do(ClearTimeout(t, t.reconnectTimeout),
                       Effect("clearTimeout", t.reconnectTimeout,
                              PendingOrSpent(t, t.reconnectTimeout)))
                      EXCEPT !.reconnectTimeout = NoTimer]
              ELSE t
      t2 == IF t1.socket # NoSocket /\ ReadyState(t1, t1.socket) < CLOSING
              THEN notifyConnectionStatus(
                     [Do(SocketClose(t1, t1.socket), Effect("close", t1.socket, ""))
                        EXCEPT !.socket = NoSocket],
                     FALSE)
              ELSE t1
  IN  [t2 EXCEPT !.transferId = Null, !.signature = Null]

----------------------------------------------------------------------------
(* The state machine *)

\* no frame: the data of an event that is not a message
NoFrame == Frame(FALSE, FALSE, "", "", "")

\* the call or event a step runs; told: the event is the close event of a socket
\* whose closure the controller has already reported; data: the frame of a
\* message event
\* url: the credentials in the url of the socket a close event belongs to
NoUrl == <<Null, Null>>
Event(op, id, code) ==
  [op |-> op, id |-> id, code |-> code, told |-> FALSE, data |-> NoFrame,
   url |-> NoUrl]
CloseEvent(id, code, toldBefore, url) ==
  [op |-> "close", id |-> id, code |-> code, told |-> toldBefore, data |-> NoFrame,
   url |-> url]
MessageEvent(id, data) ==
  [op |-> "message", id |-> id, code |-> 0, told |-> FALSE, data |-> data,
   url |-> NoUrl]

\* the sockets a handler closed itself and reported as disconnected right after
ClosedAndReported(eff) ==
  {eff[i].n : i \in {j \in 1..(Len(eff) - 1) :
                      /\ eff[j].e = "close"
                      /\ eff[j + 1].e = "onConnection"
                      /\ eff[j + 1].n = 0}}

Init ==
  /\ variant \in Variants
  /\ socket = NoSocket
  /\ sockets = <<>>
  /\ reconnectTimeout = NoTimer
  /\ timers = {}
  /\ reconnectAttempts = 0
  /\ transferId = Null
  /\ signature = Null
  /\ onStatusCallback = NoCallback
  /\ onErrorCallback = NoCallback
  /\ onConnectionCallback = NoCallback
  /\ pendingCreate = 0
  /\ last = Event("new ZenobiaClient", 0, 0)
  /\ effects = <<>>
  /\ disconnected = FALSE
  /\ retriesSinceOpen = 0
  /\ abnormalCloses = 0
  /\ lastConnected = "none"

\* the object after a method or handler ran
Commit(t) ==
  /\ socket' = t.socket
  /\ sockets' = [i \in DOMAIN t.sockets |->
                   [t.sockets[i] EXCEPT
                      !.told = @ \/ i \in ClosedAndReported(t.effects)]]
  /\ reconnectTimeout' = t.reconnectTimeout
  /\ timers' = t.timers
  /\ reconnectAttempts' = t.reconnectAttempts
  /\ transferId' = t.transferId
  /\ signature' = t.signature
  /\ onStatusCallback' = t.onStatusCallback
  /\ onErrorCallback' = t.onErrorCallback
  /\ onConnectionCallback' = t.onConnectionCallback
  /\ effects' = t.effects
  /\ retriesSinceOpen' = t.retriesSinceOpen
  /\ abnormalCloses' = t.abnormalCloses
  /\ lastConnected' = t.lastConnected
  /\ UNCHANGED variant

\* the model holds at most MaxSockets sockets that have not fired close
SocketRoom == Cardinality(DOMAIN sockets) < MaxSockets

\* The sockets that are CLOSED and that the object no longer refers to are
\* dropped (nothing can happen to them any more); the others keep their order
\* and are numbered 1..n again.
Compact(t) ==
  LET keep == {i \in DOMAIN t.sockets :
                 t.sockets[i].readyState # CLOSED \/ i = t.socket}
      rank(i) == Cardinality({j \in keep : j <= i})
      at(k) == CHOOSE i \in keep : rank(i) = k
  IN  [t EXCEPT !.sockets = [k \in 1..Cardinality(keep) |-> t.sockets[at(k)]],
                !.socket = IF @ = NoSocket THEN NoSocket ELSE rank(@)]

SetReadyState(t, id, rs) == [t EXCEPT !.sockets[id].readyState = rs]

(* caller: listenToTransfer(transferId, signature, onStatus?, onError?,       *)
(* onConnection?).  createTransferAndListen of variant 1 is CreateTransfer  *)
(* followed by this call with the credentials of the response.              *)
ListenToTransferWith(creds) ==
  /\ variant = 1
  /\ SocketRoom
  /\ \E cred \in creds, cb \in CallbackArgs, throws \in BOOLEAN :
       Commit(listenToTransfer(This, cred[1], cred[2], cb[1], cb[2], cb[3], throws))
  /\ last' = Event("listenToTransfer", 0, 0)
  /\ disconnected' = FALSE
  /\ UNCHANGED pendingCreate

ListenToTransfer == ListenToTransferWith(Credentials)

(* caller: createTransfer(url, metadata), at the moment the response is parsed *)
CreateTransferWith(creds) ==
  /\ variant = 1
  /\ \E cred \in creds : Commit(setCredentials(This, cred[1], cred[2]))
  /\ last' = Event("createTransfer", 0, 0)
  /\ disconnected' = FALSE
  /\ UNCHANGED pendingCreate

CreateTransfer == CreateTransferWith(Credentials)

(* caller: createTransferAndListen of variant 2, up to the await of fetch *)
CreateTransferAndListen ==
  /\ variant = 2
  /\ pendingCreate < MaxPending
  /\ \E cb \in CallbackArgs :
       Commit(setCallbacks(This, cb[1], cb[2], cb[3]))
  /\ pendingCreate' = pendingCreate + 1
  /\ last' = Event("createTransferAndListen", 0, 0)
  /\ UNCHANGED disconnected

(* the response of a createTransferAndListen of variant 2 arrives and is ok *)
CreateResolved ==
  /\ variant = 2
  /\ pendingCreate > 0
  /\ SocketRoom
  /\ \E cred \in Credentials, throws \in BOOLEAN :
       Commit(connectWebSocket(setCredentials(This, cred[1], cred[2]), throws))
  /\ pendingCreate' = pendingCreate - 1
  /\ last' = Event("createResolved", 0, 0)
  /\ disconnected' = FALSE

(* the fetch of a createTransferAndListen of variant 2 fails: the promise rejects *)
CreateRejected ==
  /\ variant = 2
  /\ pendingCreate > 0
  /\ Commit(This)
  /\ pendingCreate' = pendingCreate - 1
  /\ last' = Event("createRejected", 0, 0)
  /\ UNCHANGED disconnected

(* caller: disconnect() *)
Disconnect ==
  /\ Commit(disconnect(This))
  /\ last' = Event("disconnect", 0, 0)
  /\ disconnected' = TRUE
  /\ UNCHANGED pendingCreate

(* event: the connection of socket id is established *)
SocketOpen ==
  \E id \in DOMAIN sockets :
    /\ sockets[id].readyState = CONNECTING
    /\ Commit(onopen(SetReadyState(This, id, OPEN)))
    /\ last' = Event("open", id, 0)
    /\ UNCHANGED <<pendingCreate, disconnected>>

(* event: the server starts the closing handshake of socket id *)
SocketClosing ==
  \E id \in DOMAIN sockets :
    /\ sockets[id].readyState = OPEN
    /\ Commit(SetReadyState(This, id, CLOSING))
    /\ last' = Event("closing", id, 0)
    /\ UNCHANGED <<pendingCreate, disconnected>>

(* event: socket id is closed; its close event carries `code` *)
SocketClosed ==
  \E id \in DOMAIN sockets, code \in CloseCodes :
    /\ Commit(Compact(onclose(SetReadyState(This, id, CLOSED), variant, code)))
    /\ last' = CloseEvent(id, code, sockets[id].told, sockets[id].url)
    /\ UNCHANGED <<pendingCreate, disconnected>>

(* event: the transport reports an error on socket id *)
SocketError ==
  \E id \in DOMAIN sockets :
    /\ Commit(onerror(This))
    /\ last' = Event("error", id, 0)
    /\ UNCHANGED <<pendingCreate, disconnected>>

(* event: a text frame arrives on socket id.  Browsers deliver frames while  *)
(* the socket is OPEN; the handler tests readyState itself, so a runtime     *)
(* that still delivers frames during the closing handshake is covered too.  *)
(* The observers are taken to return normally.                              *)
SocketMessage ==
  \E id \in DOMAIN sockets, data \in Frames :
    /\ sockets[id].readyState \in {OPEN, CLOSING}
    /\ Commit(onmessage(This, id, data))
    /\ last' = MessageEvent(id, data)
    /\ UNCHANGED <<pendingCreate, disconnected>>

(* event: a pending timer fires and runs the callback of attemptReconnect *)
TimerFire ==
  \E tm \in timers, throws \in BOOLEAN :
    /\ SocketRoom
    /\ Commit(connectWebSocket([This EXCEPT !.timers = @ \ {tm}], throws))
    /\ last' = Event("timer", tm.id, 0)
    /\ UNCHANGED <<pendingCreate, disconnected>>

Next ==
  \/ ListenToTransfer
  \/ CreateTransfer
  \/ CreateTransferAndListen
  \/ CreateResolved
  \/ CreateRejected
  \/ Disconnect
  \/ SocketOpen
  \/ SocketClosing
  \/ SocketClosed
  \/ SocketError
  \/ SocketMessage
  \/ TimerFire

Spec == Init /\ [][Next]_vars

\* SocketError and SocketMessage change no field of the object (they only
\* call observers and send pong frames), so the object reaches the same states
\* without them; the claims about the connection lifecycle are checked on
\* the machine without these two events.
NextLifecycle ==
  \/ ListenToTransfer
  \/ CreateTransfer
  \/ CreateTransferAndListen
  \/ CreateResolved
  \/ CreateRejected
  \/ Disconnect
  \/ SocketOpen
  \/ SocketClosing
  \/ SocketClosed
  \/ TimerFire

SpecLifecycle == Init /\ [][NextLifecycle]_vars

\* The message and error handlers are the same code in both variants (lines
\* 175-204 and 483-523) and read nothing of the retry state; the claims about
\* them are checked on variant 1 with every event of a socket, on the runs
\* with at most MaxRetriesMessages consecutive retries.
InitMessages == Init /\ variant = 1

WithinRetries == reconnectAttempts' <= MaxRetriesMessages

NextMessages ==
  \/ ListenToTransfer /\ WithinRetries
  \/ Disconnect /\ WithinRetries
  \/ SocketOpen /\ WithinRetries
  \/ SocketClosing /\ WithinRetries
  \/ SocketClosed /\ WithinRetries
  \/ SocketError /\ WithinRetries
  \/ SocketMessage /\ WithinRetries
  \/ TimerFire /\ WithinRetries

SpecMessages == InitMessages /\ [][NextMessages]_vars

\* The claims about which credentials a retry uses are checked on variant 1
\* (the timer callback and the url are the same code in variant 2, lines
\* 446-448 and 550-555) with two transfers the caller can listen to (the
\* credentials are missing after disconnect()), without the frames, the
\* transport errors and the closing handshake started by the server.
TwoCredentials == {<<"t1", "s1">>, <<"t2", "s2">>}

NextCredentials ==
  \/ ListenToTransferWith(TwoCredentials)
  \/ CreateTransferWith(TwoCredentials)
  \/ Disconnect
  \/ SocketOpen
  \/ SocketClosed
  \/ TimerFire

SpecCredentials == InitMessages /\ [][NextCredentials]_vars

\* The retry chain left to itself.  The caller makes its calls before the
\* first abnormal closure and none afterwards; no connection ever opens, every
\* close event carries an abnormal code (part_000:168), and the WebSocket
\* constructor does not throw.  Every socket that does not open fires its
\* close event and every timer that stays pending fires: weak fairness on the
\* two events (the steps of SocketClosed and TimerFire that NextRetrying allows
\* are SocketFails and RetryFires, and these are enabled when those are).
CallerActive == abnormalCloses = 0
Abnormal == last'.code # NormalClosure
Constructs == \A i \in DOMAIN effects' : effects'[i].e # "throws"

SocketFails == SocketClosed /\ Abnormal
RetryFires == TimerFire /\ Constructs

NextRetrying ==
  \/ ListenToTransfer /\ CallerActive /\ Constructs
  \/ CreateTransfer /\ CallerActive
  \/ CreateTransferAndListen /\ CallerActive
  \/ CreateResolved /\ CallerActive /\ Constructs
  \/ CreateRejected /\ CallerActive
  \/ Disconnect /\ CallerActive
  \/ SocketFails
  \/ RetryFires

SpecRetrying ==
  /\ Init
  /\ [][NextRetrying]_vars
  /\ WF_vars(SocketClosed)
  /\ WF_vars(TimerFire)

----------------------------------------------------------------------------
(* Vocabulary of the properties *)

\* what the last step did
Has(kind) == \E i \in DOMAIN effects : effects[i].e = kind
Count(kind, n) ==
  Cardinality({i \in DOMAIN effects : effects[i].e = kind /\ effects[i].n = n})
Scheduled == {effects[i].n : i \in {j \in DOMAIN effects : effects[j].e = "setTimeout"}}
ObserverCalled == Has("onConnection") \/ Has("onStatus") \/ Has("onError")

\* the last step was an event of a socket or the fire of a timer
SocketEvents == {"open", "closing", "close", "error", "message"}
AsyncEvents == SocketEvents \cup {"timer"}
\* the last step was a call of the caller or the completion of one
CallerOps == {"listenToTransfer", "createTransfer", "createTransferAndListen",
              "createResolved", "createRejected", "disconnect"}

AbnormalClose == last.op = "close" /\ last.code # NormalClosure

\* the connections that are connecting or open
Live == {id \in DOMAIN sockets : sockets[id].readyState \in {CONNECTING, OPEN}}

----------------------------------------------------------------------------
(* Properties *)

\* C1: reconnectAttempts stays in 0..N (N = 6 in variant 1, 5 in variant 2) in
\* every reachable state, and the number of retries attemptReconnect has
\* scheduled since the last successful open never exceeds N.
C1_AttemptsWithinCap ==
  /\ reconnectAttempts \in 0..maxReconnectAttempts(variant)
  /\ retriesSinceOpen \in 0..maxReconnectAttempts(variant)

\* the counter reached the cap by a retry scheduled on an abnormal close
C1_Witness ==
  /\ AbnormalClose
  /\ Has("setTimeout")
  /\ retriesSinceOpen = maxReconnectAttempts(variant)
  /\ reconnectAttempts = maxReconnectAttempts(variant)

C3_NoObserverAfterDisconnect ==
  (disconnected /\ last.op \in {"close", "message", "timer"}) => ~ObserverCalled

\* C4 (as claimed): disconnect() leaves no retry timer pending, and once it has
\* returned no close event increments reconnectAttempts or schedules a retry.
C4_NoRetryAfterDisconnect ==
  disconnected =>
    /\ last.op = "disconnect" => (timers = {} /\ reconnectTimeout = NoTimer)
    /\ last.op = "close" => (~Has("setTimeout") /\ timers = {})

\* C5 (as claimed): at most one connection is connecting or open, and every
\* such connection is the one the handle this.socket refers to.
C5_AtMostOneLive ==
  /\ Cardinality(Live) <= 1
  /\ \A id \in Live : socket = id

\* C6: a close event with code 1000 never increments reconnectAttempts and never
\* schedules a retry, whatever the attempt count.
C6_NormalClosureNeverRetries ==
  [][(last'.op = "close" /\ last'.code = NormalClosure) =>
       /\ reconnectAttempts' = reconnectAttempts
       /\ timers' = timers
       /\ reconnectTimeout' = reconnectTimeout
       /\ ~Has("setTimeout")']_vars

\* a normal closure arrived while retries were under way and below the cap
C6_Witness ==
  /\ last.op = "close"
  /\ last.code = NormalClosure
  /\ reconnectAttempts \in 1..(maxReconnectAttempts(variant) - 1)
  /\ socket = NoSocket

\* the delays the claim gives, written out: min(1000 * 2^(k-1), cap)
ClaimedDelay(v, k) ==
  IF v = 1 THEN <<1000, 2000, 4000, 8000, 16000, 30000>>[k]
           ELSE <<1000, 2000, 4000, 5000, 5000>>[k]

\* C7: the retry scheduled by the k-th consecutive attempt (k = reconnectAttempts
\* after the increment) has delay min(1000 * 2^(k-1), cap), cap = 30000 in
\* variant 1 and 5000 in variant 2; an abnormal close that finds the counter at 0
\* schedules exactly one retry, with delay 1000.
C7_BackoffDelay ==
  /\ Has("setTimeout") =>
       /\ last.op = "close"
       /\ reconnectAttempts \in 1..maxReconnectAttempts(variant)
       /\ Scheduled = {ClaimedDelay(variant, reconnectAttempts)}
       /\ Count("setTimeout", ClaimedDelay(variant, reconnectAttempts)) = 1
       /\ timers = {[id |-> reconnectTimeout,
                     delay |-> ClaimedDelay(variant, reconnectAttempts)]}
  /\ (AbnormalClose /\ reconnectAttempts = 1) =>
       /\ Scheduled = {1000}
       /\ Cardinality(timers) = 1

\* the capped delay: the sixth retry of variant 1 is scheduled at 30000 ms
C7_Witness ==
  /\ variant = 1
  /\ AbnormalClose
  /\ reconnectAttempts = 6
  /\ Scheduled = {30000}

\* C8 (as claimed): with cap 6, the sixth consecutive abnormal closure schedules
\* no further retry and leaves no connection and no pending timer.
C8_SixthClosureSchedulesNothing ==
  (variant = 1 /\ AbnormalClose /\ abnormalCloses = 6) =>
    (~Has("setTimeout") /\ timers = {} /\ socket = NoSocket)

\* no connection exists and no timer is pending
Quiescent == socket = NoSocket /\ timers = {} /\ DOMAIN sockets = {}

\* C8 (amended): each of the first N consecutive abnormal closures schedules a
\* retry (the sixth one schedules the sixth retry); an abnormal closure after
\* those (the seventh with cap 6) schedules nothing, leaves the counter at N and
\* the handle absent; and while no connection exists and no timer is pending,
\* only a call of the caller changes that.
C8_ClosureAfterCapSchedulesNothing ==
  /\ [](AbnormalClose =>
         /\ socket = NoSocket
         /\ abnormalCloses <= maxReconnectAttempts(variant) =>
              (Has("setTimeout") /\ reconnectAttempts = abnormalCloses)
         /\ abnormalCloses > maxReconnectAttempts(variant) =>
              (~Has("setTimeout") /\ reconnectAttempts = maxReconnectAttempts(variant)))
  /\ [][(Quiescent /\ ~Quiescent') => last'.op \in CallerOps]_vars

\* the seventh consecutive abnormal closure with cap 6: nothing is scheduled
\* and the session is closed
C8_Witness ==
  /\ variant = 1
  /\ AbnormalClose
  /\ abnormalCloses = 7
  /\ reconnectAttempts = 6
  /\ Quiescent

\* C9: every onopen sets reconnectAttempts to 0 and invokes the connection
\* observer (when one is registered) with true exactly once, and not with false.
C9_OpenResetsAndNotifiesOnce ==
  last.op = "open" =>
    /\ reconnectAttempts = 0
    /\ Count("onConnection", 1) = (IF onConnectionCallback # NoCallback THEN 1 ELSE 0)
    /\ Count("onConnection", 0) = 0
    /\ Len(effects) = (IF onConnectionCallback # NoCallback THEN 1 ELSE 0)

\* an open after retries had been scheduled, with the observer registered
C9_Witness ==
  /\ last.op = "open"
  /\ reconnectTimeout # NoTimer
  /\ onConnectionCallback # NoCallback
  /\ Count("onConnection", 1) = 1
  /\ reconnectAttempts = 0

\* C10 (as claimed): a connection attempt that constructs a socket leaves no
\* retry timer pending.
C10_ConnectCancelsTimer ==
  Has("new") => timers = {}

\* the positions in the effects of the last step where `kind` was done
Where(kind) == {i \in DOMAIN effects : effects[i].e = kind}

\* C11: at most one retry timer is pending in every reachable state, and it is
\* the one reconnectTimeout names; a step that schedules a retry cancels the
\* previously scheduled timer first, so exactly one is pending after it.
C11_AtMostOnePendingTimer ==
  /\ Cardinality(timers) <= 1
  /\ \A tm \in timers : tm.id = reconnectTimeout
  /\ Has("setTimeout") =>
       /\ Cardinality(timers) = 1
       /\ \A i \in Where("clearTimeout"), j \in Where("setTimeout") : i < j

\* a close event scheduled a retry while an earlier retry timer was still
\* pending, and cancelled that one first
C11_Witness ==
  /\ last.op = "close"
  /\ \E i \in Where("clearTimeout"), j \in Where("setTimeout") :
       i < j /\ effects[i].s = "pending"
  /\ Cardinality(timers) = 1

\* C12 (as claimed): the close event of a connection whose closure the
\* controller initiated and already reported to the connection observer does
\* not invoke the connection observer with false again.
C12_ClosureReportedOnce ==
  (last.op = "close" /\ last.told) => Count("onConnection", 0) = 0

\* C13 (as claimed): reconnectAttempts increases only in a step after which no
\* connection is connecting or open, and it decreases only by the open event,
\* which sets it to 0.
C13_IncreaseOnlyWhileDisconnected ==
  [][/\ reconnectAttempts' > reconnectAttempts => Live' = {}
     /\ reconnectAttempts' < reconnectAttempts =>
          (last'.op = "open" /\ reconnectAttempts' = 0)]_vars

\* the steps that run connectWebSocket
ConnectOps == {"listenToTransfer", "createResolved", "timer"}

\* C14 (as claimed): a connect attempted while transferId or signature is
\* missing constructs no socket, schedules no retry, and reports the failure
\* through the error observer when one is registered.
C14_MissingCredentialsReported ==
  (last.op \in ConnectOps /\ ~hasCredentials(This)) =>
    /\ ~Has("new")
    /\ ~Has("setTimeout")
    /\ onErrorCallback # NoCallback => Count("onError", 0) = 1

\* the object frames the dispatch has no branch for: a type other than status,
\* error and ping, a status frame without transfer, an error frame without a
\* non-empty message
Unhandled(data) ==
  /\ data.parses
  /\ data.object
  /\ \/ data.type \notin {"status", "error", "ping"}
     \/ data.type = "status" /\ data.transfer = ""
     \/ data.type = "error" /\ data.message = ""

\* C15 (as claimed): a frame that parses as JSON but has an unrecognized or
\* missing type, or lacks its required field, invokes the error observer (when
\* one is registered) with the parse-failure message, and changes nothing else.
C15_UnhandledFrameReported ==
  (last.op = "message" /\ Unhandled(last.data) /\ onErrorCallback # NoCallback) =>
    effects = <<Effect("onError", 0, "Failed to parse message")>>

\* the last step left the handle, the sockets, the attempt counter, the retry
\* timer, the credentials and the registered observers as they were
ObjectUnchanged ==
  UNCHANGED <<socket, sockets, reconnectAttempts, reconnectTimeout, timers,
              transferId, signature, onStatusCallback, onErrorCallback,
              onConnectionCallback>>

\* what a handler does when it calls the observer `cb` once with `arg`
Once(cb, kind, arg) == IF cb # NoCallback THEN <<Effect(kind, 0, arg)>> ELSE <<>>

\* C16: a message whose text is not valid JSON invokes the error observer (when
\* one is registered) exactly once with "Failed to parse message", does nothing
\* else, and leaves the connection handle, the connection, reconnectAttempts and
\* the retry timer unchanged.
C16_InvalidJsonReportedOnce ==
  [][(last'.op = "message" /\ ~last'.data.parses) =>
       /\ effects' = Once(onErrorCallback, "onError", "Failed to parse message")
       /\ ObjectUnchanged]_vars

\* invalid JSON arrived on the open connection the handle refers to, with the
\* error observer registered
C16_Witness ==
  /\ last.op = "message"
  /\ ~last.data.parses
  /\ onErrorCallback # NoCallback
  /\ Count("onError", 0) = 1
  /\ socket = last.id
  /\ sockets[last.id].readyState = OPEN

\* C17: a ping frame on a connection that is open sends exactly one pong on
\* that connection and invokes no observer; a ping on a connection that is not
\* open sends nothing and invokes no observer.
C17_PingAnsweredOnceWhenOpen ==
  [][(last'.op = "message" /\ last'.data.object /\ last'.data.type = "ping") =>
       /\ effects' = IF sockets[last'.id].readyState = OPEN
                       THEN <<Effect("send", last'.id, "pong")>>
                       ELSE <<>>
       /\ ObjectUnchanged]_vars

\* a ping was answered on an open connection while observers were registered
C17_Witness ==
  /\ last.op = "message"
  /\ last.data.type = "ping"
  /\ sockets[last.id].readyState = OPEN
  /\ effects = <<Effect("send", last.id, "pong")>>
  /\ onStatusCallback # NoCallback
  /\ onErrorCallback # NoCallback

\* C18: a status frame with a transfer invokes the status observer (when one is
\* registered) exactly once with that transfer and no other observer; an error
\* frame with a message invokes the error observer exactly once with that
\* message and no other observer; neither changes the handle, reconnectAttempts
\* or the retry timer.  The observers are taken to return normally.
C18_StatusAndErrorForwarded ==
  [][/\ (/\ last'.op = "message"
         /\ last'.data.object
         /\ last'.data.type = "status"
         /\ last'.data.transfer # "") =>
          /\ effects' = Once(onStatusCallback, "onStatus", last'.data.transfer)
          /\ ObjectUnchanged
     /\ (/\ last'.op = "message"
         /\ last'.data.object
         /\ last'.data.type = "error"
         /\ last'.data.message # "") =>
          /\ effects' = Once(onErrorCallback, "onError", last'.data.message)
          /\ ObjectUnchanged]_vars

\* the second of two different transfers was forwarded to the status observer
C18_Witness ==
  /\ last.op = "message"
  /\ last.data.type = "status"
  /\ last.data.transfer = "transferB"
  /\ effects = <<Effect("onStatus", 0, "transferB")>>
  /\ socket = last.id

\* C19: a connect that finds a connection held closes that connection first,
\* then reports false to the connection observer (when one is registered), and
\* only then constructs the new socket: close(old), notify(false), create(new).
C19_CloseNotifyCreate ==
  [][(last'.op \in ConnectOps /\ socket # NoSocket) =>
       /\ Where("close")' = {1}
       /\ effects'[1].n = socket
       /\ sockets'[socket].readyState >= CLOSING
       /\ Where("onConnection")' =
            (IF onConnectionCallback' # NoCallback THEN {2} ELSE {})
       /\ \A i \in Where("onConnection")' : effects'[i].n = 0
       /\ \A j \in Where("new")' :
            /\ j = Len(effects')
            /\ \A i \in Where("close")' \cup Where("onConnection")' : i < j
            /\ effects'[j].n # socket
            /\ socket' = effects'[j].n]_vars

\* a connect replaced a held connection with the observer registered: the three
\* effects in order
C19_Witness ==
  /\ last.op \in ConnectOps
  /\ Len(effects) = 3
  /\ effects[1].e = "close"
  /\ effects[2] = Effect("onConnection", 0, "")
  /\ effects[3].e = "new"
  /\ socket = effects[3].n
  /\ sockets[effects[1].n].readyState = CLOSING

\* C20: when the WebSocket constructor throws, the error observer (when one is
\* registered) is invoked once, the handle is absent, no socket is constructed,
\* reconnectAttempts is unchanged and no retry is scheduled; also when the
\* attempt was started by a retry timer.
C20_SetupFailure ==
  [][Has("throws")' =>
       /\ last'.op \in ConnectOps
       /\ socket' = NoSocket
       /\ ~Has("new")'
       /\ DOMAIN sockets' = DOMAIN sockets
       /\ Count("onError", 0)' = (IF onErrorCallback' # NoCallback THEN 1 ELSE 0)
       /\ reconnectAttempts' = reconnectAttempts
       /\ ~Has("setTimeout")'
       /\ timers' \subseteq timers]_vars

\* the constructor threw in an attempt started by a retry timer, with the error
\* observer registered
C20_Witness ==
  /\ last.op = "timer"
  /\ Has("throws")
  /\ Count("onError", 0) = 1
  /\ socket = NoSocket
  /\ reconnectAttempts > 0
  /\ timers = {}

\* C21: a transport error event invokes the error observer (when one is
\* registered) exactly once with "WebSocket error occurred" and does nothing
\* else: the handle, the sockets, reconnectAttempts, the retry timer and the
\* stored credentials are unchanged and no retry is scheduled.
C21_TransportErrorOnlyReported ==
  [][last'.op = "error" =>
       /\ effects' = Once(onErrorCallback, "onError", "WebSocket error occurred")
       /\ ObjectUnchanged]_vars

\* a transport error on the open connection the handle refers to, with the
\* error observer registered and credentials stored
C21_Witness ==
  /\ last.op = "error"
  /\ effects = <<Effect("onError", 0, "WebSocket error occurred")>>
  /\ socket = last.id
  /\ sockets[last.id].readyState = OPEN
  /\ hasCredentials(This)
  /\ timers = {}

\* the caller has gone silent with credentials stored
Retrying == abnormalCloses > 0 /\ hasCredentials(This)

\* no connection, no pending timer, the attempt counter at the cap
Exhausted ==
  /\ socket = NoSocket
  /\ DOMAIN sockets = {}
  /\ timers = {}
  /\ reconnectAttempts = maxReconnectAttempts(variant)

\* C22: when every connection attempt ends in an abnormal closure without
\* opening and the caller makes no further call, the controller eventually
\* reaches and stays in the state with no connection, no pending retry timer
\* and reconnectAttempts = maxReconnectAttempts; no connection is created from
\* then on.
C22_RetriesEndQuiescent == [](Retrying => <>[]Exhausted)

\* the last attempt of a session that was never disconnected has failed
C22_Witness ==
  /\ Exhausted
  /\ last.op = "close"
  /\ ~disconnected
  /\ hasCredentials(This)
  /\ abnormalCloses = maxReconnectAttempts(variant) + 1

\* the stored credentials
Stored == <<transferId, signature>>

\* C23: an abnormal closure of the current connection that finds
\* reconnectAttempts below the cap and credentials stored schedules a retry;
\* close events and timer fires leave the stored credentials unchanged; the
\* socket a timer fire constructs is built from the stored credentials, which
\* are those of the closed connection when the timer fires right after the
\* close of a connection that was built from them.
C23_RetryReusesCredentials ==
  [][/\ (/\ last'.op = "close"
         /\ last'.code # NormalClosure
         /\ socket = last'.id
         /\ reconnectAttempts < maxReconnectAttempts(variant)
         /\ hasCredentials(This)) =>
          /\ Has("setTimeout")'
          /\ Cardinality(timers') = 1
     /\ last'.op \in {"close", "timer"} => Stored' = Stored
     /\ (last'.op = "timer" /\ hasCredentials(This)) =>
          (Has("new")' \/ Has("throws")')
     /\ (last'.op = "timer" /\ Has("new")') =>
          /\ sockets'[socket'].url = Stored
          /\ (last.op = "close" /\ last.url = Stored) =>
               sockets'[socket'].url = last.url]_vars

\* a retry timer fired while the credentials of the second transfer were
\* stored and constructed a socket for that transfer
C23_Witness ==
  /\ last.op = "timer"
  /\ Has("new")
  /\ socket # NoSocket
  /\ sockets[socket].url = <<"t2", "s2">>
  /\ Stored = <<"t2", "s2">>
  /\ reconnectAttempts > 0

\* C24 (as claimed): the close event of a connection the controller has
\* replaced, arriving while the handle refers to a newer connection, leaves the
\* handle referring to that connection, does not change reconnectAttempts and
\* schedules no retry.
C24_StaleCloseHasNoEffect ==
  [][(last'.op = "close" /\ socket # NoSocket /\ socket # last'.id) =>
       /\ socket' # NoSocket
       /\ reconnectAttempts' = reconnectAttempts
       /\ ~Has("setTimeout")'
       /\ timers' = timers]_vars

\* C25 (as claimed): the connection observer is never invoked with true when
\* its previous invocation was with true.
C25_ConnectedAlternates ==
  [][Count("onConnection", 1)' > 0 => lastConnected # "true"]_vars

====
